---- MODULE Spec2Model ----
(***************************************************************************)
(* A model of src/src/index.ts: the read-only accessor ENV over            *)
(* process.env (with its views ENV.opt and ENV.num) and the startup        *)
(* validator ok(), which spawns grep over the source tree and checks every *)
(* usage grep reports against the live environment.                        *)
(*                                                                         *)
(* Strings are TLA+ strings; a JavaScript value that is not always a       *)
(* string (undefined, a number, NaN, a member of the accessor object) is a *)
(* tagged record, so that values of different JavaScript types compare.    *)
(*                                                                         *)
(* The stdout callback runs to completion on each chunk (one action); the  *)
(* chunks cut grep's output at any character. The same actions are run on  *)
(* four sets of inputs:                                                    *)
(*   Spec          the scan of a tree that uses one variable in the three  *)
(*                 ways, grep silent on its stderr;                        *)
(*   SpecLogs      a scan with lines the pattern cannot read, one of them  *)
(*                 longer than the anomaly message, and errors of grep;    *)
(*   SpecGate      single usages of a plain name and of a member name;     *)
(*   SpecAccessor  accesses through ENV while the host changes its         *)
(*                 environment.                                            *)
(* Which directory ok() scans (the working directory or its src) decides   *)
(* only what grep finds, and that is left open.                            *)
(***************************************************************************)
EXTENDS Integers, Sequences, FiniteSets, TLC

VARIABLES
    env,        \* process.env: a function from the names that are set to their values
    child,      \* the grep child process: "unspawned", "running", "closed"
    pending,    \* what the child has still to write to its stdout
    delivered,  \* the chunks handed to the stdout callback so far
    errs,       \* the chunks the child has still to write to its stderr
    console,    \* what console.log has printed, in order
    status,     \* the host process: "running" or "exited" (process.exit)
    exitCode,   \* the host's exit status once it has exited
    events,     \* history: one record per line the stdout callback looked at
    acc         \* the last access made through ENV, ENV.opt or ENV.num

vars == <<env, child, pending, delivered, errs, console, status, exitCode, events, acc>>

validatorVars == <<child, pending, delivered, errs, console, status, exitCode, events>>

(***************************************************************************)
(* JavaScript values                                                       *)
(***************************************************************************)
Undefined == [t |-> "undefined"]

Str(s) == [t |-> "string", s |-> s]

Num(n) == [t |-> "number", n |-> n]

NaN == [t |-> "NaN"]

\* a member of the proxied target object: ENV.opt, ENV.num, ENV.ok
Member(name) == [t |-> "member", name |-> name]

Return(v) == [kind |-> "return", value |-> v]

Throw(msg) == [kind |-> "throw", message |-> msg]

\* process.env[name]
ProcessEnv(name) == IF name \in DOMAIN env THEN Str(env[name]) ELSE Undefined

\* !value, for a value that is undefined or a string
Falsy(value) == value = Undefined \/ value = Str("")

(***************************************************************************)
(* Strings                                                                 *)
(***************************************************************************)
Min(a, b) == IF a <= b THEN a ELSE b

CharAt(s, i) == SubSeq(s, i, i)

\* s has t at position i
HasAt(s, i, t) == i >= 1 /\ i + Len(t) - 1 <= Len(s) /\ SubSeq(s, i, i + Len(t) - 1) = t

\* String.prototype.substr(start, length), for start = 0
Substr0(s, length) == SubSeq(s, 1, Min(length, Len(s)))

RECURSIVE IndexFrom(_, _, _)
\* the first position >= i at which s has t, 0 when there is none
IndexFrom(s, t, i) ==
    IF i + Len(t) - 1 > Len(s) THEN 0
    ELSE IF HasAt(s, i, t) THEN i
    ELSE IndexFrom(s, t, i + 1)

RECURSIVE Split(_)
\* String.prototype.split('\n')
Split(s) ==
    LET p == IndexFrom(s, "\n", 1)
    IN  IF p = 0 THEN <<s>>
        ELSE <<SubSeq(s, 1, p - 1)>> \o Split(SubSeq(s, p + 1, Len(s)))

(***************************************************************************)
(* The extraction pattern /ENV\.(opt\.|num\.)?([a-zA-Z0-9_]+)/             *)
(***************************************************************************)
Digits == {"0", "1", "2", "3", "4", "5", "6", "7", "8", "9"}

\* the character class [a-zA-Z0-9_]
WordChars ==
    {"a", "b", "c", "d", "e", "f", "g", "h", "i", "j", "k", "l", "m",
     "n", "o", "p", "q", "r", "s", "t", "u", "v", "w", "x", "y", "z",
     "A", "B", "C", "D", "E", "F", "G", "H", "I", "J", "K", "L", "M",
     "N", "O", "P", "Q", "R", "S", "T", "U", "V", "W", "X", "Y", "Z",
     "_"} \cup Digits

RECURSIVE WordRun(_, _)
\* [a-zA-Z0-9_]+ is greedy: the length of the longest run of word characters at i
WordRun(s, i) ==
    IF i <= Len(s) /\ CharAt(s, i) \in WordChars THEN 1 + WordRun(s, i + 1) ELSE 0

Null == [t |-> "null"]

\* The match that starts at position i, or Null. The optional group is tried
\* first; when the name cannot follow it the group is given up (mod is then
\* undefined) and the name is matched right after "ENV.".
MatchAt(line, i) ==
    IF ~HasAt(line, i, "ENV.") THEN Null
    ELSE LET j == i + 4
             g == IF HasAt(line, j, "opt.") THEN "opt."
                  ELSE IF HasAt(line, j, "num.") THEN "num."
                  ELSE ""
         IN  IF g # "" /\ WordRun(line, j + 4) > 0
             THEN [t |-> "match", mod |-> Str(g),
                   env_var |-> SubSeq(line, j + 4, j + 3 + WordRun(line, j + 4))]
             ELSE IF WordRun(line, j) > 0
             THEN [t |-> "match", mod |-> Undefined,
                   env_var |-> SubSeq(line, j, j - 1 + WordRun(line, j))]
             ELSE Null

RECURSIVE ExecFrom(_, _)
ExecFrom(line, i) ==
    IF i > Len(line) THEN Null
    ELSE IF MatchAt(line, i) # Null THEN MatchAt(line, i)
    ELSE ExecFrom(line, i + 1)

\* RegExp.prototype.exec: the leftmost match
Exec(line) == ExecFrom(line, 1)

(***************************************************************************)
(* parseInt(string), isNaN, util.inspect                                   *)
(***************************************************************************)
DigitValue(c) ==
    CASE c = "0" -> 0 [] c = "1" -> 1 [] c = "2" -> 2 [] c = "3" -> 3 [] c = "4" -> 4
      [] c = "5" -> 5 [] c = "6" -> 6 [] c = "7" -> 7 [] c = "8" -> 8 [] c = "9" -> 9

RECURSIVE SkipWhite(_, _)
\* the first position >= i that holds no white space
SkipWhite(s, i) ==
    IF i <= Len(s) /\ CharAt(s, i) \in {" ", "\t", "\n"} THEN SkipWhite(s, i + 1) ELSE i

RECURSIVE DigitRun(_, _)
\* the length of the longest run of decimal digits at i
DigitRun(s, i) ==
    IF i <= Len(s) /\ CharAt(s, i) \in Digits THEN 1 + DigitRun(s, i + 1) ELSE 0

RECURSIVE Decimal(_, _, _)
\* the value of the n digits of s that start at i, read after the value so far
Decimal(s, i, n) ==
    IF n = 0 THEN 0 ELSE 10 * Decimal(s, i, n - 1) + DigitValue(CharAt(s, i + n - 1))

\* parseInt(s) without a radix: leading white space is skipped, a sign is
\* read, then the longest run of digits; what follows is ignored and no
\* digit at all is NaN. No value of this model starts with 0x, so the radix
\* is always 10.
ParseInt(s) ==
    LET a    == SkipWhite(s, 1)
        sign == IF HasAt(s, a, "-") THEN -1 ELSE 1
        b    == IF HasAt(s, a, "-") \/ HasAt(s, a, "+") THEN a + 1 ELSE a
        n    == DigitRun(s, b)
    IN  IF n = 0 THEN NaN ELSE Num(sign * Decimal(s, b, n))

IsNaN(v) == v = NaN

\* util.inspect of undefined or of a string without quotes or escapes
Inspect(value) == IF value = Undefined THEN "undefined" ELSE "'" \o value.s \o "'"

(***************************************************************************)
(* The validator: ok() and its callbacks                                   *)
(***************************************************************************)
AnomalyMax == 100

\* the whole line, not cut
AnomalyText_Whole(line) == line

\* line.substr(0, 100)
AnomalyText(line) == Substr0(line, AnomalyMax)

\* a numeric usage checked for presence only
Incompatible_NoNaN(mod, value) == Falsy(value)

\* the conditions of the two branches that end the process: a numeric usage
\* needs a non-empty value that parseInt reads, any other a non-empty value
Incompatible(mod, value) ==
    IF mod = Str("num.")
    THEN Falsy(value) \/ IsNaN(ParseInt(value.s))
    ELSE Falsy(value)

\* the template string of the diagnostic printed before process.exit(1)
FatalText(mod, env_var, value) ==
    "ENV found required field " \o (IF mod = Str("num.") THEN "num." ELSE "") \o env_var
        \o ", but given value " \o Inspect(value) \o " is incompatible."

Log(stmt, text) == [stmt |-> stmt, text |-> text]

\* the body of the loop without the return for an optional usage: the value
\* of an optional variable is looked up and checked like a required one
CheckLine_OptChecked(line) ==
    LET match == Exec(line)
        base  == [line |-> line, match |-> match, read |-> FALSE, logs |-> <<>>]
    IN  IF line = "" THEN [base EXCEPT !.match = Null] @@ [control |-> "return", kind |-> "empty"]
        ELSE IF match = Null
        THEN [base EXCEPT !.logs = <<Log("anomaly",
                                "Could not parse ENV grep result: " \o AnomalyText(line))>>]
             @@ [control |-> "return", kind |-> "anomaly"]
        ELSE LET value == ProcessEnv(match.env_var)
             IN  IF Falsy(value)
                 THEN [base EXCEPT !.read = TRUE,
                                   !.logs = <<Log("fatal",
                                       FatalText(match.mod, match.env_var, value))>>]
                      @@ [control |-> "exit", kind |-> "fatal"]
                 ELSE [base EXCEPT !.read = TRUE] @@ [control |-> "next", kind |-> "pass"]

\* One pass through the body of the for loop. control says how the pass
\* ends: "next" goes on to the next line, "return" leaves the callback,
\* "exit" is process.exit(1). read says whether process.env was read.
CheckLine(line) ==
    LET match == Exec(line)
        base  == [line |-> line, match |-> match, read |-> FALSE, logs |-> <<>>]
    IN  IF line = "" THEN [base EXCEPT !.match = Null] @@ [control |-> "return", kind |-> "empty"]
        ELSE IF match = Null
        THEN [base EXCEPT !.logs = <<Log("anomaly",
                                "Could not parse ENV grep result: " \o AnomalyText(line))>>]
             @@ [control |-> "return", kind |-> "anomaly"]
        ELSE IF match.mod = Str("opt.")
        THEN base @@ [control |-> "return", kind |-> "opt"]
        ELSE LET value == ProcessEnv(match.env_var)
             IN  IF Incompatible(match.mod, value)
                 THEN [base EXCEPT !.read = TRUE,
                                   !.logs = <<Log("fatal",
                                       FatalText(match.mod, match.env_var, value))>>]
                      @@ [control |-> "exit", kind |-> "fatal"]
                 ELSE [base EXCEPT !.read = TRUE] @@ [control |-> "next", kind |-> "pass"]

RECURSIVE Loop_NoExit(_, _, _)
\* the loop when the fatal branch does not stop it (the exit status is set
\* and the process left to end by itself): the lines after it are looked at
Loop_NoExit(lines, i, done) ==
    IF i > Len(lines) THEN done
    ELSE LET r == CheckLine(lines[i])
             d == Append(done, r)
         IN  IF r.control = "return" THEN d ELSE Loop_NoExit(lines, i + 1, d)

RECURSIVE Loop(_, _, _)
\* for (const line of lines), from the i-th line on; done is what the
\* passes so far have produced
Loop(lines, i, done) ==
    IF i > Len(lines) THEN done
    ELSE LET r == CheckLine(lines[i])
             d == Append(done, r)
         IN  IF r.control = "next" THEN Loop(lines, i + 1, d) ELSE d

\* the stdout callback on one chunk: the passes it makes, in order
OnData(data) == Loop(Split(data), 1, <<>>)

RECURSIVE Logs(_)
Logs(passes) == IF passes = <<>> THEN <<>> ELSE Head(passes).logs \o Logs(Tail(passes))

Exits(passes) == passes # <<>> /\ passes[Len(passes)].control = "exit"

(***************************************************************************)
(* Bounds and inputs of the validator                                      *)
(***************************************************************************)
MaxLines == 2

MaxChunks == 2

\* every process.env over the given names and values
Envs(names, values) ==
    UNION {[D -> values] : D \in SUBSET names}

RECURSIVE OutputsOf(_, _)
\* what grep may write: up to n of the given lines, each ended by a line feed
OutputsOf(lines, n) ==
    IF n = 0 THEN {""}
    ELSE LET S == OutputsOf(lines, n - 1)
         IN  S \cup {o \o l \o "\n" : o \in S, l \in lines}

\* The scan of a tree whose files use one variable in the three ways, next
\* to a line the pattern cannot read; the variable is unset, empty, not a
\* number, or a number.
ScanNames == {"FOO"}

ScanValues == {"", "abc", "42"}

Lines == {"a:ENV.FOO", "a:ENV.num.FOO", "a:ENV.opt.FOO", "junk"}

Outputs == OutputsOf(Lines, MaxLines)

(***************************************************************************)
(* Actions of the validator                                                *)
(***************************************************************************)
\* ok(): spawn grep on the scan root and register the two callbacks. What
\* grep will write (outs to its stdout, errouts to its stderr) is decided by
\* the source tree, which the model leaves open.
ok(outs, errouts) ==
    /\ status = "running"
    /\ child = "unspawned"
    /\ child' = "running"
    /\ pending' \in outs
    /\ errs' \in errouts
    /\ UNCHANGED <<env, delivered, console, status, exitCode, events, acc>>

\* child.stdout.on('data', ...): the next n characters of grep's output
\* arrive as one chunk; the last of MaxChunks chunks takes all that is left
stdout_data(n) ==
    /\ status = "running"
    /\ child = "running"
    /\ n \in 1..Len(pending)
    /\ (Len(delivered) + 1 < MaxChunks \/ n = Len(pending))
    /\ LET data   == SubSeq(pending, 1, n)
           passes == OnData(data)
           k      == Len(delivered) + 1
       IN  /\ pending' = SubSeq(pending, n + 1, Len(pending))
           /\ delivered' = Append(delivered, data)
           /\ console' = console \o Logs(passes)
           /\ events' = events \o [i \in 1..Len(passes) |-> passes[i] @@ [chunk |-> k]]
           /\ status' = IF Exits(passes) THEN "exited" ELSE status
           /\ exitCode' = IF Exits(passes) THEN 1 ELSE exitCode
    /\ UNCHANGED <<env, child, errs, acc>>

\* child.stderr.on('data', ...)
stderr_data ==
    /\ status = "running"
    /\ child = "running"
    /\ errs # <<>>
    /\ console' = Append(console,
                         Log("stderr", "Error while grepping for ENV variables: " \o Head(errs)))
    /\ errs' = Tail(errs)
    /\ UNCHANGED <<env, child, pending, delivered, status, exitCode, events, acc>>

\* grep ends once it has written everything; no callback is registered for it
close ==
    /\ status = "running"
    /\ child = "running"
    /\ pending = ""
    /\ errs = <<>>
    /\ child' = "closed"
    /\ UNCHANGED <<env, pending, delivered, errs, console, status, exitCode, events, acc>>

NoAccess == [tick |-> 0, op |-> "none", name |-> "", out |-> Null, differs |-> FALSE]

\* the state before ok() is called, in the environment e
Start(e) ==
    /\ env = e
    /\ child = "unspawned"
    /\ pending = ""
    /\ delivered = <<>>
    /\ errs = <<>>
    /\ console = <<>>
    /\ status = "running"
    /\ exitCode = 0
    /\ events = <<>>
    /\ acc = NoAccess

Init == \E e \in Envs(ScanNames, ScanValues) : Start(e)

Next ==
    \/ ok(Outputs, {<<>>})
    \/ \E n \in 1..Len(pending) : stdout_data(n)
    \/ close

Spec == Init /\ [][Next]_vars

(***************************************************************************)
(* The accessor: the proxy ENV and its views ENV.opt and ENV.num. A trap   *)
(* yields what the access gives the caller (out) and the environment it    *)
(* leaves (env).                                                           *)
(***************************************************************************)
Reserved == {"num", "opt", "ok"}

UndefinedMessage(name) == "Environment variable " \o name \o " is undefined."

SetMessage == "Cannot set env value."

\* process.env[name] || '': the empty string for a name that is unset
opt_get_OrEmpty(name) ==
    [out |-> Return(IF name \in DOMAIN env THEN Str(env[name]) ELSE Str("")), env |-> env]

\* ENV.opt[name]
opt_get(name) == [out |-> Return(ProcessEnv(name)), env |-> env]

\* ENV.opt[name] = value
opt_set(name, value) == [out |-> Throw(SetMessage), env |-> env]

\* ENV.num[name]
num_get(name) ==
    LET v == ProcessEnv(name)
    IN  IF v = Undefined
        THEN [out |-> Throw(UndefinedMessage(name)), env |-> env]
        ELSE [out |-> Return(ParseInt(v.s)), env |-> env]

\* ENV.num[name] = value
num_set(name, value) == [out |-> Throw(SetMessage), env |-> env]

\* a get that remembers what it returned: the same name asked for twice in
\* a row gets the first answer again
ENV_get_Cached(name) ==
    IF name \in Reserved
    THEN [out |-> Return(Member(name)), env |-> env]
    ELSE IF acc.op = "get" /\ acc.name = name /\ acc.out.kind = "return"
    THEN [out |-> acc.out, env |-> env]
    ELSE LET v == ProcessEnv(name)
         IN  IF v = Undefined
             THEN [out |-> Throw(UndefinedMessage(name)), env |-> env]
             ELSE [out |-> Return(v), env |-> env]

\* ENV[name]
ENV_get(name) ==
    IF name \in Reserved
    THEN [out |-> Return(Member(name)), env |-> env]
    ELSE LET v == ProcessEnv(name)
         IN  IF v = Undefined
             THEN [out |-> Throw(UndefinedMessage(name)), env |-> env]
             ELSE [out |-> Return(v), env |-> env]

\* a set trap that writes the value through to process.env before it throws
ENV_set_Writes(name, value) ==
    [out |-> Throw(SetMessage),
     env |-> [n \in DOMAIN env \cup {name} |-> IF n = name THEN value ELSE env[n]]]

\* ENV[name] = value
ENV_set(name, value) == [out |-> Throw(SetMessage), env |-> env]

(***************************************************************************)
(* Bounds and inputs of the accessor                                       *)
(***************************************************************************)
MaxValLen == 2

\* a digit, a letter and a sign: values with and without a leading integer
Alphabet == {"4", "a", "-"}

RECURSIVE Strings(_)
\* the strings over Alphabet of length at most n
Strings(n) ==
    IF n = 0 THEN {""}
    ELSE LET S == Strings(n - 1)
         IN  S \cup {s \o c : s \in S, c \in Alphabet}

Values == Strings(MaxValLen)

\* the names the host sets and the names application code asks for
EnvNames == {"FOO"}

AccessNames == {"FOO", "BAR"} \cup Reserved

(***************************************************************************)
(* Actions of the accessor and of the host's environment                   *)
(***************************************************************************)
\* Application code makes the access op on name and gets r. tick tells one
\* access from the next; differs records that the access before was the same
\* one and gave something else.
Access(op, name, r) ==
    /\ status = "running"
    /\ acc' = [tick |-> 1 - acc.tick, op |-> op, name |-> name, out |-> r.out,
               differs |-> acc.op = op /\ acc.name = name /\ acc.out # r.out]
    /\ env' = r.env
    /\ UNCHANGED validatorVars

Get(name) == Access("get", name, ENV_get(name))

GetOptional(name) == Access("getOptional", name, opt_get(name))

GetNumeric(name) == Access("getNumeric", name, num_get(name))

Set(name, value) == Access("set", name, ENV_set(name, value))

SetOptional(name, value) == Access("setOptional", name, opt_set(name, value))

SetNumeric(name, value) == Access("setNumeric", name, num_set(name, value))

\* the host changes its own environment: process.env[name] = value
setenv(name, value) ==
    /\ status = "running"
    /\ env' = [n \in DOMAIN env \cup {name} |-> IF n = name THEN value ELSE env[n]]
    /\ UNCHANGED <<acc, child, pending, delivered, errs, console, status, exitCode, events>>

\* delete process.env[name]
unsetenv(name) ==
    /\ status = "running"
    /\ name \in DOMAIN env
    /\ env' = [n \in DOMAIN env \ {name} |-> env[n]]
    /\ UNCHANGED <<acc, child, pending, delivered, errs, console, status, exitCode, events>>

InitAccessor == \E e \in Envs(EnvNames, Values) : Start(e)

NextAccessor ==
    \/ \E name \in AccessNames : Get(name)
    \/ \E name \in AccessNames : GetOptional(name)
    \/ \E name \in AccessNames : GetNumeric(name)
    \/ \E name \in AccessNames, value \in Values : Set(name, value)
    \/ \E name \in AccessNames, value \in Values : SetOptional(name, value)
    \/ \E name \in AccessNames, value \in Values : SetNumeric(name, value)
    \/ \E name \in EnvNames, value \in Values : setenv(name, value)
    \/ \E name \in EnvNames : unsetenv(name)

SpecAccessor == InitAccessor /\ [][NextAccessor]_vars

(***************************************************************************)
(* Two more scans. The first has a line longer than the anomaly message    *)
(* shows, and grep may report an error of its own; the second has single   *)
(* usages of a plain name and of a member name of the accessor.            *)
(***************************************************************************)
\* a line the pattern cannot read, longer than AnomalyMax
LongLine == SubSeq("xxxxxxxxxxxxxxxxxxxxxxxxxxxxxxxxxxxxxxxxxxxxxxxxxx"
                   \o "xxxxxxxxxxxxxxxxxxxxxxxxxxxxxxxxxxxxxxxxxxxxxxxxxx", 1, AnomalyMax) \o "yz"

LogLines == {"junk", "a:ENV.FOO"}

LogOutputs == OutputsOf(LogLines, MaxLines)

LongOutputs == {LongLine \o "\n" \o "a:ENV.FOO" \o "\n"}

\* what grep may write to its stderr
ErrOutputs == {<<>>, <<"grep: b.ts: Permission denied\n">>}

InitLogs == \E e \in Envs({"FOO"}, {"42"}) : Start(e)

NextLogs ==
    \/ ok(LogOutputs, ErrOutputs)
    \/ ok(LongOutputs, {<<>>})
    \/ \E n \in 1..Len(pending) : stdout_data(n)
    \/ stderr_data
    \/ close

SpecLogs == InitLogs /\ [][NextLogs]_vars

GateNames == {"FOO", "ok"}

GateValues == {"", "abc", "42", "42abc"}

GateLines == {"a:ENV.FOO", "a:ENV.num.FOO", "a:ENV.ok()", "a:ENV.num.ok"}

GateOutputs == {l \o "\n" : l \in GateLines}

InitGate == \E e \in Envs(GateNames, GateValues) : Start(e)

NextGate ==
    \/ ok(GateOutputs, {<<>>})
    \/ \E n \in 1..Len(pending) : stdout_data(n)
    \/ close

SpecGate == InitGate /\ [][NextGate]_vars

(***************************************************************************)
(* Notions the properties share                                            *)
(***************************************************************************)
RECURSIVE Concat(_)
Concat(chunks) == IF chunks = <<>> THEN "" ELSE Head(chunks) \o Concat(Tail(chunks))

\* the lines of everything grep writes in this run
OutputLines == Split(Concat(delivered) \o pending)

\* every chunk delivered so far ended with a line feed
WholeLineChunks ==
    \A k \in 1..Len(delivered) : HasAt(delivered[k], Len(delivered[k]), "\n")

\* every line of the output is one the extraction pattern reads
AllLinesParse ==
    \A i \in 1..Len(OutputLines) : OutputLines[i] = "" \/ Exec(OutputLines[i]) # Null

\* s holds t somewhere
Contains(s, t) == \E i \in 1..(Len(s) + 1) : HasAt(s, i, t)

\* the search has ended or the host has been terminated
Finished == child = "closed" \/ status = "exited"

Printed(stmt) == {j \in 1..Len(console) : console[j].stmt = stmt}

Looked(kind) == {j \in 1..Len(events) : events[j].kind = kind}

\* an access has just been made
Accessed(op) == acc'.tick # acc.tick /\ acc'.op = op

(***************************************************************************)
(* C1. Whenever the output holds a line with an unmodified usage ENV.FOO   *)
(* and FOO is unset or empty, the validator ends the process with a        *)
(* non-zero status and prints a message that names FOO. Stated for the     *)
(* runs in which every chunk ends at a line end and every line is read by  *)
(* the pattern, so that neither a split line nor a parse anomaly is what   *)
(* keeps the usage from being checked.                                     *)
(***************************************************************************)
C1_RequiredUnmetIsFatal ==
    (Finished /\ WholeLineChunks /\ AllLinesParse) =>
        \A i \in 1..Len(OutputLines) :
            LET m == Exec(OutputLines[i])
            IN  (m # Null /\ m.mod = Undefined /\ Falsy(ProcessEnv(m.env_var))) =>
                    /\ status = "exited"
                    /\ exitCode # 0
                    /\ \E j \in 1..Len(console) : Contains(console[j].text, m.env_var)

(***************************************************************************)
(* C2. Whenever the output holds a line with a numeric usage ENV.num.BAR   *)
(* and BAR is absent or not parseable as an integer, the validator ends    *)
(* the process with a non-zero status and prints a message that names BAR  *)
(* and the unusable value. Stated for the same runs as C1.                 *)
(***************************************************************************)
C2_NumericUnmetIsFatal ==
    (Finished /\ WholeLineChunks /\ AllLinesParse) =>
        \A i \in 1..Len(OutputLines) :
            LET m == Exec(OutputLines[i])
                v == ProcessEnv(m.env_var)
            IN  (m # Null /\ m.mod = Str("num.") /\ (v = Undefined \/ ParseInt(v.s) = NaN)) =>
                    /\ status = "exited"
                    /\ exitCode # 0
                    /\ \E j \in 1..Len(console) :
                          /\ Contains(console[j].text, m.env_var)
                          /\ Contains(console[j].text, Inspect(v))

(***************************************************************************)
(* C3. getNumeric has exactly three outcomes: it fails when the name is    *)
(* absent, it fails when the value has no leading integer, and otherwise   *)
(* it returns that integer; the caller never receives NaN or undefined.    *)
(***************************************************************************)
C3_NumericOutcomes ==
    [][Accessed("getNumeric") =>
         LET v == ProcessEnv(acc'.name)
         IN  IF v = Undefined THEN acc'.out = Throw(UndefinedMessage(acc'.name))
             ELSE IF ParseInt(v.s) = NaN THEN acc'.out.kind = "throw"
             ELSE acc'.out = Return(ParseInt(v.s)) /\ acc'.out.value.t = "number"]_vars

(***************************************************************************)
(* C4. For every name other than the reserved members, get returns exactly *)
(* the value the environment holds at the time of the access when that     *)
(* value is non-empty, and fails when the name is absent: the lookup is    *)
(* live, a get after a change of the environment returns the new value.    *)
(***************************************************************************)
C4_GetIsLive ==
    [][(Accessed("get") /\ acc'.name \notin Reserved) =>
         LET v == ProcessEnv(acc'.name)
         IN  /\ v = Undefined => acc'.out = Throw(UndefinedMessage(acc'.name))
             /\ (v # Undefined /\ v.s # "") => acc'.out = Return(v)]_vars

\* a get returned a value other than the one the get of the same name just
\* before it returned
C4_Witness ==
    /\ acc.op = "get" /\ acc.name \notin Reserved
    /\ acc.differs
    /\ acc.out.kind = "return" /\ acc.out.value.s # ""

(***************************************************************************)
(* C5. Every write through ENV, ENV.opt or ENV.num, for any name and any   *)
(* value, fails and leaves the environment as it was.                      *)
(***************************************************************************)
C5_WritesFail ==
    [][(Accessed("set") \/ Accessed("setOptional") \/ Accessed("setNumeric")) =>
         acc'.out = Throw(SetMessage) /\ env' = env]_vars

C5_Witness ==
    /\ acc.op \in {"set", "setOptional", "setNumeric"}
    /\ acc.out.kind = "throw"
    /\ acc.name \in DOMAIN env

(***************************************************************************)
(* C6. A line whose usage carries the opt. modifier never ends the         *)
(* process and prints nothing, whatever the environment holds for the      *)
(* name; the environment is not read for it.                               *)
(***************************************************************************)
C6_OptionalNeverFatal ==
    \A j \in 1..Len(events) :
        LET e == events[j]
        IN  (e.match # Null /\ e.match.mod = Str("opt.")) =>
                e.control # "exit" /\ e.logs = <<>> /\ ~e.read

\* an optional usage of a variable that is unset has been looked at
C6_Witness ==
    \E j \in 1..Len(events) :
        /\ events[j].match # Null
        /\ events[j].match.mod = Str("opt.")
        /\ events[j].match.env_var \notin DOMAIN env

(***************************************************************************)
(* C7. A non-empty line the pattern cannot read is logged once, with at    *)
(* most its first 100 characters; no further line of its chunk is looked   *)
(* at; the process is not ended by it; and the chunks that come after it   *)
(* are still looked at, so an unmet required usage in one of them still    *)
(* ends the process.                                                       *)
(***************************************************************************)
C7_AnomalyIsLoggedAndSkipped ==
    /\ \A j \in 1..Len(events) :
          LET e == events[j]
              n == IF Len(e.line) < 100 THEN Len(e.line) ELSE 100
          IN  (e.line # "" /\ Exec(e.line) = Null) =>
                  /\ e.logs = <<Log("anomaly",
                                    "Could not parse ENV grep result: " \o SubSeq(e.line, 1, n))>>
                  /\ e.control = "return"
                  /\ \A j2 \in (j + 1)..Len(events) : events[j2].chunk > e.chunk
    /\ Cardinality(Printed("anomaly")) = Cardinality(Looked("anomaly"))
    /\ status = "exited" => events[Len(events)].kind = "fatal"
    /\ \A k \in 1..Len(delivered) :
          \E j \in 1..Len(events) :
              /\ events[j].chunk = k
              /\ events[j].line = Split(delivered[k])[1]
              /\ \A j2 \in 1..(j - 1) : events[j2].chunk < k

\* a line of more than 100 characters was logged in one chunk and a later
\* chunk ended the process
C7_Witness ==
    \E j \in 1..Len(events) :
        /\ events[j].kind = "anomaly"
        /\ Len(events[j].line) > 100
        /\ status = "exited"
        /\ events[Len(events)].chunk > events[j].chunk

(***************************************************************************)
(* C8. On success nothing is printed; on fatal failure exactly one         *)
(* diagnostic line is printed before the process ends, and after that no   *)
(* line is looked at and nothing is printed.                               *)
(***************************************************************************)
C8_Original ==
    /\ (child = "closed" /\ status = "running") => console = <<>>
    /\ status = "exited" => Len(console) = 1 /\ console[1].stmt = "fatal"

(***************************************************************************)
(* C8 as amended. While the process runs, and so on success, no fatal      *)
(* diagnostic is printed: all that is printed is one anomaly message per   *)
(* line the pattern could not read and what grep wrote to its stderr. On   *)
(* fatal failure exactly one fatal diagnostic is printed, with exit status *)
(* 1; it is the last thing printed and its line the last line looked at.   *)
(***************************************************************************)
C8_Output ==
    /\ status = "running" =>
          /\ Printed("fatal") = {}
          /\ Looked("fatal") = {}
          /\ \A j \in 1..Len(console) : console[j].stmt \in {"anomaly", "stderr"}
          /\ Cardinality(Printed("anomaly")) = Cardinality(Looked("anomaly"))
    /\ status = "exited" =>
          /\ exitCode = 1
          /\ Printed("fatal") = {Len(console)}
          /\ Looked("fatal") = {Len(events)}
          /\ events[Len(events)].logs = <<console[Len(console)]>>

\* the process was ended after something else had been printed
C8_Witness == status = "exited" /\ Len(console) > 1

(***************************************************************************)
(* C9. getOptional never fails: it returns undefined, not the empty        *)
(* string, when the name is unset and the exact value when it is set.      *)
(***************************************************************************)
C9_OptionalNeverFails ==
    [][Accessed("getOptional") =>
         /\ acc'.out.kind = "return"
         /\ acc'.name \notin DOMAIN env => acc'.out.value = Undefined
         /\ acc'.name \in DOMAIN env => acc'.out.value = Str(env[acc'.name])]_vars

C9_Witness == acc.op = "getOptional" /\ acc.out = Return(Undefined)

(***************************************************************************)
(* C10. For every usage the validator checks and does not reject, the      *)
(* matching access does not fail in the same environment: get returns a    *)
(* non-empty string for a usage without modifier, getNumeric an integer    *)
(* for a numeric one.                                                      *)
(***************************************************************************)
C10_Original ==
    \A j \in 1..Len(events) :
        LET e == events[j]
        IN  /\ (e.kind = "pass" /\ e.match.mod = Undefined) =>
                  LET r == ENV_get(e.match.env_var).out
                  IN  r.kind = "return" /\ r.value.t = "string" /\ r.value.s # ""
            /\ (e.kind = "pass" /\ e.match.mod = Str("num.")) =>
                  LET r == num_get(e.match.env_var).out
                  IN  r.kind = "return" /\ r.value.t = "number"

(***************************************************************************)
(* C10 as amended: the same, for the usages without modifier whose name is *)
(* not a member of the accessor object (num, opt, ok); for such a member   *)
(* get returns the member, whatever the environment holds. Not the other   *)
(* way round: a variable set to the empty string is rejected by the        *)
(* validator and returned by get.                                          *)
(***************************************************************************)
C10_AcceptedThenAccessible ==
    \A j \in 1..Len(events) :
        LET e == events[j]
        IN  /\ (e.kind = "pass" /\ e.match.mod = Undefined /\ e.match.env_var \notin Reserved) =>
                  LET r == ENV_get(e.match.env_var).out
                  IN  r.kind = "return" /\ r.value.t = "string" /\ r.value.s # ""
            /\ (e.kind = "pass" /\ e.match.mod = Str("num.")) =>
                  LET r == num_get(e.match.env_var).out
                  IN  r.kind = "return" /\ r.value.t = "number"
            /\ (e.kind = "fatal" /\ e.match.mod = Undefined /\ e.match.env_var \notin Reserved
                  /\ ProcessEnv(e.match.env_var) = Str("")) =>
                  ENV_get(e.match.env_var).out = Return(Str(""))

\* a numeric usage was accepted whose value has text after its integer
C10_Witness ==
    \E j \in 1..Len(events) :
        /\ events[j].kind = "pass"
        /\ events[j].match.mod = Str("num.")
        /\ ProcessEnv(events[j].match.env_var) = Str("42abc")

====
